---- MODULE Spec2Model ----
(***************************************************************************)
(* Acetonitrile (ACN) potential, ase/calculators/acn.py.                   *)
(*                                                                         *)
(* Numbers.  The program computes in floating point; the model computes    *)
(* exactly, on integers:                                                   *)
(*   - lengths are integer multiples of a grid unit; where the code halves *)
(*     a length the model doubles both sides of the expression;            *)
(*   - a quotient is kept as its numerator over a stated denominator       *)
(*     (width^3 for the cutoff, Den_ for the redistributed forces);        *)
(*   - arrays are functions on 0 .. len-1, as numpy indexes them;          *)
(*   - a value that may be None is a set: None is {}, a value x is {x}.    *)
(***************************************************************************)
EXTENDS Integers, FiniteSets, Sequences

VARIABLES
    \* wrap(D, cell, pbc) and its return value
    D, cell, pbc, shift,
    \* ACN.cutoff(d): self.rc, self.width, and the two arrays returned
    d, rc, width, cut, dtdd,
    \* module-level masses and bond lengths (lines 26-35)
    mMe, mC, mN, rMeC, rCN,
    \* ACN.redistribute_forces(n, me, f_old) and its return value
    f_old, f_new,
    \* set_acn_charges(atoms, qmidx): the atoms object passed, and qmidx
    arg_atoms, qmidx,
    \* the calculator: self.nm, self.n, self.me, self.forces, self.results,
    \* self.pcpot (self.atoms, which Calculator.calculate sets from the
    \* argument and ACN.calculate reads back in the same call, is the
    \* argument of Calculate)
    nm, n, me, forces, results, pcpot,
    \* the exception the last call ended with (Returned: none)
    raised,
    \* history: the forces handed to redistribute_forces by the last
    \* completed calculate; the number of set_positions calls so far; the
    \* serial of the newest positions an evaluation has consumed
    f_raw, supplied, consumed

vars == <<D, cell, pbc, shift, d, rc, width, cut, dtdd,
          mMe, mC, mN, rMeC, rCN, f_old, f_new, arg_atoms, qmidx,
          nm, n, me, forces, results, pcpot, raised,
          f_raw, supplied, consumed>>

wrapVars == <<D, cell, pbc, shift>>
cutoffVars == <<d, rc, width, cut, dtdd>>
paramVars == <<mMe, mC, mN, rMeC, rCN>>
redistVars == <<f_old, f_new>>
chargeVars == <<arg_atoms, qmidx>>
calcVars == <<nm, n, me, forces, results, pcpot, f_raw, supplied, consumed>>

None == {}
Some(x) == {x}
The(o) == CHOOSE x \in o : TRUE
Returned == "Returned"

(***************************************************************************)
(* Bounds of the model.                                                    *)
(***************************************************************************)
\* displacement components range over -MaxD .. MaxD grid units
MaxD == 3
\* cell lengths range over 1 .. MaxL grid units
MaxL == 3
\* distances range over 0 .. MaxDist, rc over 1 .. MaxRc, width over 1 .. MaxWidth
MaxDist == 6
MaxRc == 5
MaxWidth == 3
\* force components range over -MaxF .. MaxF
MaxF == 1
\* a snapshot holds 1 .. MaxAtoms atoms
MaxAtoms == 6
\* at most MaxSupply calls of set_positions
MaxSupply == 2

\* lengths of the arrays handed to wrap and cutoff (the empty array included)
Lengths == {0, 1}
\* the axes of a position: positions.reshape((-1, 3, 3)), cell.diagonal()
Axes == {0, 1, 2}

Array(len, S) == [0 .. len - 1 -> S]
Size(a) == Cardinality(DOMAIN a)
Zeros(a) == [i \in DOMAIN a |-> 0]

(***************************************************************************)
(* wrap, lines 61-69.                                                      *)
(***************************************************************************)
\* One entry of shift[:, i] = (d + L / 2) % L - L / 2 - d.  Twice the value
\* is ((2d + L) % 2L) - L - 2d, a multiple of 2L, so the halving is exact.
\* % with a positive modulus is non-negative, in numpy as in TLA+.
WrapEntryNotRecentred(x, L) == (((2 * x + L) % (2 * L)) - 2 * x) \div 2

WrapEntryHalfUp(x, L) == IF (2 * x) % (2 * L) = L /\ x > 0
                       THEN (((2 * x + L) % (2 * L)) + L - 2 * x) \div 2
                       ELSE (((2 * x + L) % (2 * L)) - L - 2 * x) \div 2

WrapEntry(x, L) == (((2 * x + L) % (2 * L)) - L - 2 * x) \div 2

\* shift = np.zeros_like(D); for i, periodic in enumerate(pbc): if periodic: ...
wrap(D_, cell_, pbc_) ==
    [i \in DOMAIN D_ |->
        [ax \in DOMAIN pbc_ |->
            IF pbc_[ax] THEN WrapEntry(D_[i][ax], cell_[ax]) ELSE 0]]

Displacements == UNION {Array(len, [Axes -> -MaxD .. MaxD]) : len \in Lengths}

InitIdleWrap ==
    /\ D = <<>> /\ cell = [ax \in Axes |-> 1] /\ pbc = [ax \in Axes |-> FALSE]
    /\ shift = None

InitWrap ==
    /\ D \in Displacements
    /\ cell \in [Axes -> 1 .. MaxL]
    /\ pbc \in [Axes -> BOOLEAN]
    /\ shift = None

\* shift = wrap(D, cell, pbc); the function reads D and writes only shift
Wrap ==
    /\ shift = None
    /\ shift' = Some(wrap(D, cell, pbc))
    /\ UNCHANGED <<D, cell, pbc>>

(***************************************************************************)
(* ACN.cutoff, lines 204-214.  cut and dtdd are returned as numerators     *)
(* over width^3: y = yn / width with yn = d - rc + width, so               *)
(*   y^2 (3 - 2y)          = yn^2 (3 width - 2 yn) / width^3               *)
(*   6 / width * y (1 - y) = 6 yn (width - yn)     / width^3               *)
(***************************************************************************)
CutDen(w) == w * w * w

x1(x, rc_, w) == x > rc_ - w

x2(x, rc_) == x < rc_

x12Unbounded(x, rc_, w) == x1(x, rc_, w)

x12(x, rc_, w) == x1(x, rc_, w) /\ x2(x, rc_)

cutoff(d_, rc_, w) ==
    LET yn(i) == d_[i] - rc_ + w
        cut0 == Zeros(d_)
        cut1 == [i \in DOMAIN d_ |-> IF x2(d_[i], rc_) THEN CutDen(w) ELSE cut0[i]]
        cut2 == [i \in DOMAIN d_ |->
                    IF x12(d_[i], rc_, w)
                    THEN cut1[i] - yn(i) * yn(i) * (3 * w - 2 * yn(i))
                    ELSE cut1[i]]
        dtdd0 == Zeros(d_)
        dtdd1 == [i \in DOMAIN d_ |->
                    IF x12(d_[i], rc_, w)
                    THEN dtdd0[i] - 6 * yn(i) * (w - yn(i))
                    ELSE dtdd0[i]]
    IN  [cut |-> cut2, dtdd |-> dtdd1]

Distances == UNION {Array(len, 0 .. MaxDist) : len \in Lengths}

InitIdleCutoff ==
    /\ d = <<>> /\ rc = 1 /\ width = 1 /\ cut = None /\ dtdd = None

InitCutoff ==
    /\ d \in Distances
    /\ rc \in 1 .. MaxRc
    /\ width \in 1 .. MaxWidth
    /\ cut = None /\ dtdd = None

\* cut, dtdd = self.cutoff(d)
Cutoff ==
    /\ cut = None
    /\ cut' = Some(cutoff(d, rc, width).cut)
    /\ dtdd' = Some(cutoff(d, rc, width).dtdd)
    /\ UNCHANGED <<d, rc, width>>

(***************************************************************************)
(* Masses and bond lengths, lines 26-40.  They enter the redistribution    *)
(* only through polynomials, so the model takes small integer values:     *)
(* ModuleParameters is the module's own <<mMe, mC, mN, rMeC, rCN>> (15.035,*)
(* 12.011, 14.007 and 1.458 : 1.157) rounded, and Parameters adds others   *)
(* for the check of redistribute_forces on its own.                        *)
(***************************************************************************)
ModuleParameters == <<15, 12, 14, 5, 4>>
Parameters == {ModuleParameters, <<1, 1, 1, 1, 1>>, <<2, 1, 3, 1, 2>>}

HasParameters(p) ==
    mMe = p[1] /\ mC = p[2] /\ mN = p[3] /\ rMeC = p[4] /\ rCN = p[5]

InitModuleParameters == HasParameters(ModuleParameters)

InitParameters == \E p \in Parameters : HasParameters(p)

rMeN == rMeC + rCN
MCN == mC * mN
MMeC == mC * mMe
MMeN == mN * mMe

\* CMe = rCN / rMeN and CN = rMeC / rMeN, so
\*   CMe**2*MCN + CN**2*MMeC + MMeN = Den_ / rMeN^2
\*   NMe = rCN * rMeN / Den_,  NN = rMeC * rMeN / Den_
Den_ == rCN * rCN * MCN + rMeC * rMeC * MMeC + rMeN * rMeN * MMeN

\* the products of line 192, as numerators over Den_
NN_MMeC_CN == rMeC * rMeC * MMeC
NN_MCN_CMe == rMeC * rCN * MCN
NN_MMeN == rMeC * rMeN * MMeN
\* the products of line 194, as numerators over Den_
NMe_MCN_CMe == rCN * rCN * MCN
NMe_MMeC_CN == rCN * rMeC * MMeC
NMe_MMeN == rCN * rMeN * MMeN

(***************************************************************************)
(* ACN.redistribute_forces, lines 186-196, on one axis of the force array  *)
(* (the code treats the three axes alike).  The result is the array of     *)
(* numerators of f_new over Den_.                                          *)
(***************************************************************************)
\* line 192: f_new[n::3, :]
NewN(n_, me_, f, k) ==
    (Den_ - NN_MMeC_CN) * f[k + n_] - NN_MCN_CMe * f[k + me_] + NN_MMeN * f[k + 1]

NewMeNoCarbon(n_, me_, f, k) ==
    (Den_ - NMe_MCN_CMe) * f[k + me_] - NMe_MMeC_CN * f[k + n_]

\* line 194: f_new[me::3, :]
NewMe(n_, me_, f, k) ==
    (Den_ - NMe_MCN_CMe) * f[k + me_] - NMe_MMeC_CN * f[k + n_] + NMe_MMeN * f[k + 1]

redistribute_forces(n_, me_, f) ==
    LET f_new0 == Zeros(f)
        f_new1 == [i \in DOMAIN f |->
                    IF i % 3 = n_ THEN NewN(n_, me_, f, i - n_) ELSE f_new0[i]]
        f_new2 == [i \in DOMAIN f |->
                    IF i % 3 = me_ THEN NewMe(n_, me_, f, i - me_) ELSE f_new1[i]]
    IN  f_new2

\* the two orderings of a molecule: <<n, me>> is <<0, 2>> for N C Me and
\* <<2, 0>> for Me C N (lines 115-120)
Orderings == {<<0, 2>>, <<2, 0>>}
\* numbers of molecules of the force arrays handed to redistribute_forces
MolCounts == {1, 2}

InitIdleRedistribute ==
    /\ f_old = <<>> /\ f_new = None

InitRedistribute ==
    /\ f_old \in UNION {Array(3 * k, -MaxF .. MaxF) : k \in MolCounts}
    /\ f_new = None

\* f_new = self.redistribute_forces(self.n, self.me, f_old)
Redistribute ==
    /\ f_new = None
    /\ f_new' = Some(redistribute_forces(The(n), The(me), f_old))
    /\ UNCHANGED <<f_old, n, me>>


(***************************************************************************)
(* Force field parameters, lines 15-25: charges in 1/1000 e, sigma in      *)
(* 1/1000 Angstrom, epsilon in 1/10000 kJ/mol.                             *)
(***************************************************************************)
qMe == 206
qC == 247
qN == -453
sigmaMe == 3775
sigmaC == 3650
sigmaN == 3200
epsilonMe == 7824
epsilonC == 5440
epsilonN == 6276
\* sigma = np.array([sigmaMe, sigmaC, sigmaN]), epsilon likewise
sigma == [i \in 0 .. 2 |-> IF i = 0 THEN sigmaMe ELSE IF i = 1 THEN sigmaC ELSE sigmaN]
epsilon == [i \in 0 .. 2 |->
             IF i = 0 THEN epsilonMe ELSE IF i = 1 THEN epsilonC ELSE epsilonN]

(***************************************************************************)
(* CombineLJ_lorenz_berthelot, lines 71-80.  sigma_c is returned doubled   *)
(* ((sigma[ii] + sigma) / 2 without the halving) and epsilon_c squared     *)
(* ((epsilon[ii] * epsilon) ** 0.5 without the root), entry [row][column]. *)
(***************************************************************************)
CombineLJ_lorenz_berthelot(sigma_, epsilon_) ==
    [sigma_c |-> [k \in DOMAIN sigma_ |-> [ii \in DOMAIN sigma_ |->
                    sigma_[ii] + sigma_[k]]],
     epsilon_c |-> [k \in DOMAIN sigma_ |-> [ii \in DOMAIN sigma_ |->
                    epsilon_[ii] * epsilon_[k]]]]

(***************************************************************************)
(* Atoms.  numbers is the array of atomic numbers; a methyl group is a     *)
(* carbon (6), as the assertions of lines 52-55 and 121-124 read it.       *)
(***************************************************************************)
Species == {6, 7}
NumberArrays == UNION {Array(len, Species) : len \in 1 .. MaxAtoms}

\* the indices of a[start::3]
Slice(start, a) == {i \in DOMAIN a : i >= start /\ (i - start) % 3 = 0}

\* (a[start::3] == z).all()
AllEqual(a, start, z) == \A i \in Slice(start, a) : a[i] = z

\* assert (a[start::3] == z).all, '...': the assertion tests the bound
\* method, not its result, and a method object is true
AllNotCalled(a, start, z) == TRUE

(***************************************************************************)
(* set_acn_charges, lines 42-59.  np.empty leaves the entries below qmidx  *)
(* unset: they hold whatever the allocation held, any of Garbage.          *)
(***************************************************************************)
Garbage == {0, 999}

\* lines 46-51
ChargeN(numbers, qmidx_) == IF numbers[qmidx_] = 7 THEN qmidx_ ELSE qmidx_ + 2
ChargeMe(numbers, qmidx_) == IF numbers[qmidx_] = 7 THEN qmidx_ + 2 ELSE qmidx_

\* lines 52-55
ChargeAsserts(numbers, qmidx_) ==
    /\ AllNotCalled(numbers, ChargeN(numbers, qmidx_), 7)
    /\ AllNotCalled(numbers, qmidx_ + 1, 6)

\* lines 43, 56-58: the array handed to set_initial_charges
AcnCharges(numbers, qmidx_, empty) ==
    LET c0 == [i \in DOMAIN numbers |-> IF i \in DOMAIN empty THEN empty[i] ELSE 0]
        c1 == [i \in DOMAIN numbers |->
                IF i \in Slice(ChargeMe(numbers, qmidx_), numbers) THEN qMe ELSE c0[i]]
        c2 == [i \in DOMAIN numbers |->
                IF i \in Slice(qmidx_ + 1, numbers) THEN qC ELSE c1[i]]
        c3 == [i \in DOMAIN numbers |->
                IF i \in Slice(ChargeN(numbers, qmidx_), numbers) THEN qN ELSE c2[i]]
    IN  c3

InitIdleCharges ==
    /\ arg_atoms = [numbers |-> <<>>, initial_charges |-> <<>>] /\ qmidx = 0

InitCharges ==
    /\ arg_atoms \in {[numbers |-> z, initial_charges |-> Zeros(z)] : z \in NumberArrays}
    /\ qmidx \in 0 .. MaxAtoms - 1
    /\ raised = Returned

\* set_acn_charges(arg_atoms, qmidx) on atoms no charges were assigned to
SetAcnCharges ==
    /\ raised = Returned
    /\ arg_atoms.initial_charges = Zeros(arg_atoms.numbers)
    /\ qmidx \in DOMAIN arg_atoms.numbers
    /\ IF ChargeAsserts(arg_atoms.numbers, qmidx)
       THEN \E empty \in Array(qmidx, Garbage) :
              /\ arg_atoms' = [arg_atoms EXCEPT !.initial_charges =
                                 AcnCharges(arg_atoms.numbers, qmidx, empty)]
              /\ raised' = Returned
       ELSE /\ raised' = "AssertionError"
            /\ UNCHANGED arg_atoms
    /\ UNCHANGED qmidx

\* atoms.numbers[qmidx] with qmidx past the end, line 46
SetAcnChargesIndexError ==
    /\ raised = Returned
    /\ qmidx \notin DOMAIN arg_atoms.numbers
    /\ raised' = "IndexError"
    /\ UNCHANGED <<arg_atoms, qmidx>>


(***************************************************************************)
(* ACN.calculate, lines 100-184.                                           *)
(*                                                                         *)
(* The pairwise magnitudes (e / r2 * cut, e.sum(1) * dcut / d, ...) are    *)
(* real numbers the model does not evaluate.  Each array F[.., k] and Fmm  *)
(* of one pass of the loops is a term; a force array is kept as a linear   *)
(* form over the terms: forces[t][a] is the multiplicity with which term t *)
(* enters the force on atom a.  What the model keeps exactly is which atom *)
(* every contribution is added to and subtracted from.                     *)
(*   <<"F", kind, m, j, i>>   F of molecule m, site j, partner atom i      *)
(*   <<"Fmm", kind, m, j, p>> Fmm of molecule m, site j, partner molecule p*)
(*   <<"pc", "coulomb", 0, 0, i>>  the point-charge force f on atom i      *)
(***************************************************************************)
Kinds == {"coulomb", "lj"}

Terms(nm_) ==
    {t \in {"F"} \X Kinds \X (0 .. nm_ - 2) \X (0 .. 2) \X (0 .. 3 * nm_ - 1) :
        t[5] >= (t[3] + 1) * 3}
    \cup {t \in {"Fmm"} \X Kinds \X (0 .. nm_ - 2) \X (0 .. 2) \X (0 .. nm_ - 1) :
        t[5] > t[3]}
    \cup ({"pc"} \X {"coulomb"} \X {0} \X {0} \X (0 .. 3 * nm_ - 1))

\* lines 158, 169: self.forces[(m + 1) * 3:] += F.reshape((-1, 3))
\* lines 160, 171: self.forces[(m + 1) * 3 + 1::3] += Fmm
Added(t, a) ==
    IF t[1] = "F" THEN (IF a = t[5] THEN 1 ELSE 0)
    ELSE IF t[1] = "Fmm" THEN (IF a = t[5] * 3 + 1 THEN 1 ELSE 0)
    ELSE 0

SubtractedFmmForgotten(t, a) ==
    IF t[1] = "F" THEN (IF a = t[3] * 3 + t[4] THEN 1 ELSE 0)
    ELSE 0

\* lines 159, 170: self.forces[m * 3 + j] -= F.sum(axis=0).sum(axis=0)
\* lines 161, 172: self.forces[m * 3 + 1] -= Fmm.sum(0)
Subtracted(t, a) ==
    IF t[1] = "F" THEN (IF a = t[3] * 3 + t[4] THEN 1 ELSE 0)
    ELSE IF t[1] = "Fmm" THEN (IF a = t[3] * 3 + 1 THEN 1 ELSE 0)
    ELSE 0

\* lines 131-172: self.forces when the loops end
LoopForces(nm_) ==
    [t \in Terms(nm_) |-> [a \in 0 .. 3 * nm_ - 1 |-> Added(t, a) - Subtracted(t, a)]]

\* LoopForces for every number of molecules a snapshot can hold (the loops
\* read no state of the calculator)
LoopForcesOf == [k \in 0 .. MaxAtoms \div 3 |-> LoopForces(k)]

\* line 178: self.forces += f
PlusPointCharges(f) ==
    [t \in DOMAIN f |-> [a \in DOMAIN f[t] |->
        f[t][a] + (IF t = <<"pc", "coulomb", 0, 0, a>> THEN 1 ELSE 0)]]

\* line 180, term by term: redistribute_forces is linear in f_old
Redistributed(n_, me_, f) == [t \in DOMAIN f |-> redistribute_forces(n_, me_, f[t])]

\* lines 147, 163-165: the combined parameters the loop applies to the pair
\* (site j of molecule m, site k of a later molecule): sigma_c[:, j] and
\* epsilon_c[:, j], entry k
LJParameters(j, k) ==
    LET c == CombineLJ_lorenz_berthelot(sigma, epsilon)
    IN  [sigma_c |-> c.sigma_c[k][j], epsilon_c |-> c.epsilon_c[k][j]]

\* lines 154-155, 163-166: the pair energies summed into energy, each with
\* the quantities that set its value besides the geometry
LoopEnergy(nm_, charges) ==
    {[kind |-> "coulomb", a |-> t[3] * 3 + t[4], b |-> t[5],
      q |-> charges[t[4]] * charges[t[5] % 3], sigma_c |-> 0, epsilon_c |-> 0] :
        t \in {u \in Terms(nm_) : u[1] = "F" /\ u[2] = "coulomb"}}
    \cup
    {[kind |-> "lj", a |-> t[3] * 3 + t[4], b |-> t[5], q |-> 0,
      sigma_c |-> LJParameters(t[4], t[5] % 3).sigma_c,
      epsilon_c |-> LJParameters(t[4], t[5] % 3).epsilon_c] :
        t \in {u \in Terms(nm_) : u[1] = "F" /\ u[2] = "lj"}}

\* a snapshot: the atoms object handed to calculate, its charges assigned
\* by set_acn_charges(atoms) beforehand
Snapshots ==
    {[numbers |-> z, initial_charges |-> AcnCharges(z, 0, <<>>), orthorhombic |-> o] :
        z \in NumberArrays, o \in BOOLEAN}

\* the charges an attached field is built from
ExternalCharges == {<<1, -1>>}

NoResults == [energy |-> None, forces |-> None]

InitIdleCalculator ==
    /\ nm = None /\ n = None /\ me = None
    /\ forces = None /\ results = NoResults /\ pcpot = None
    /\ f_raw = None /\ supplied = 0 /\ consumed = 0

\* ACN(rc, width), lines 87-98
InitCalculator ==
    /\ nm = None /\ n = None /\ me = None
    /\ forces = None /\ results = NoResults /\ pcpot = None
    /\ raised = Returned
    /\ f_raw = None /\ supplied = 0 /\ consumed = 0

\* lines 115-120
NitrogenOffset(z) == IF z[0] = 7 THEN 0 ELSE 2
MethylOffset(z) == IF z[0] = 7 THEN 2 ELSE 0

\* lines 121-124
SequenceAsserts(z) ==
    /\ AllEqual(z, NitrogenOffset(z), 7)
    /\ AllNotCalled(z, 1, 6)

\* PointChargePotential.calculate, lines 240-253: zip raises TypeError on
\* mmpositions None, after mmforces was overwritten by np.zeros_like(None),
\* written Some(0); the mmforces computed from the positions of serial s are
\* written Some(s)
FieldMissing == pcpot # None /\ The(pcpot).mmpositions = None

\* line 252
ClearedKept(mmpositions) == mmpositions

Cleared(mmpositions) == None

Calculate(a) ==
    LET z == a.numbers
        k == Size(z) \div 3
        loop == LoopForcesOf[k]
        raw == IF pcpot = None THEN loop ELSE PlusPointCharges(loop)
        f_redistributed == Redistributed(NitrogenOffset(z), MethylOffset(z), raw)
        energy == [pairs |-> LoopEnergy(k, a.initial_charges),
                   pc |-> IF pcpot = None THEN None ELSE The(pcpot).mmpositions]
    IN  /\ IF Size(z) % 3 # 0
           THEN \* line 105: reshape((-1, 3, 3))
                /\ raised' = "ValueError"
                /\ UNCHANGED <<nm, n, me, forces, results, pcpot, f_raw, consumed>>
           ELSE IF ~a.orthorhombic \/ ~SequenceAsserts(z)
           THEN \* lines 113, 121-124
                /\ nm' = Some(k)
                /\ raised' = "AssertionError"
                /\ UNCHANGED <<n, me, forces, results, pcpot, f_raw, consumed>>
           ELSE IF FieldMissing
           THEN \* lines 125-175, 242-244
                /\ nm' = Some(k)
                /\ n' = Some(NitrogenOffset(z)) /\ me' = Some(MethylOffset(z))
                /\ forces' = Some(loop)
                /\ pcpot' = Some([The(pcpot) EXCEPT !.mmforces = Some(0)])
                /\ raised' = "TypeError"
                /\ UNCHANGED <<results, f_raw, consumed>>
           ELSE \* lines 125-184
                /\ nm' = Some(k)
                /\ n' = Some(NitrogenOffset(z)) /\ me' = Some(MethylOffset(z))
                /\ f_raw' = Some(raw)
                /\ forces' = Some(f_redistributed)
                /\ results' = [energy |-> Some(energy), forces |-> Some(f_redistributed)]
                /\ pcpot' = IF pcpot = None THEN None
                            ELSE Some([The(pcpot) EXCEPT
                                        !.mmforces = The(pcpot).mmpositions,
                                        !.mmpositions = Cleared(The(pcpot).mmpositions)])
                /\ consumed' = IF pcpot = None THEN consumed
                               ELSE The(The(pcpot).mmpositions)
                /\ raised' = Returned
        /\ UNCHANGED supplied

\* ACN.embed, lines 216-219, and PointChargePotential.__init__, lines 228-235
Embed(c) ==
    /\ pcpot' = Some([mmcharges |-> c, mmpositions |-> None, mmforces |-> None])
    /\ UNCHANGED <<nm, n, me, forces, results, raised, f_raw, supplied, consumed>>

\* PointChargePotential.set_positions, lines 237-238; the positions are
\* named by the serial number of the call that supplies them
SetPositions ==
    /\ pcpot # None
    /\ supplied < MaxSupply
    /\ supplied' = supplied + 1
    /\ pcpot' = Some([The(pcpot) EXCEPT !.mmpositions = Some(supplied + 1)])
    /\ UNCHANGED <<nm, n, me, forces, results, raised, f_raw, consumed>>

\* ACN.check_state, lines 221-225, on the list Calculator.check_state returns
check_state(base) ==
    IF pcpot # None /\ The(pcpot).mmpositions # None
    THEN Append(base, "positions")
    ELSE base

(***************************************************************************)
(* Specifications.                                                         *)
(***************************************************************************)
Init ==
    /\ InitIdleWrap /\ InitIdleCutoff /\ InitIdleRedistribute /\ InitIdleCharges
    /\ InitModuleParameters /\ InitCalculator

Next ==
    \/ /\ \E a \in Snapshots : Calculate(a)
       /\ UNCHANGED <<wrapVars, cutoffVars, paramVars, redistVars, chargeVars>>
    \/ /\ \E c \in ExternalCharges : Embed(c)
       /\ UNCHANGED <<wrapVars, cutoffVars, paramVars, redistVars, chargeVars>>
    \/ /\ SetPositions
       /\ UNCHANGED <<wrapVars, cutoffVars, paramVars, redistVars, chargeVars>>

Spec == Init /\ [][Next]_vars

InitW ==
    /\ InitWrap /\ InitIdleCutoff /\ InitIdleRedistribute /\ InitIdleCharges
    /\ InitModuleParameters /\ InitCalculator

NextW ==
    Wrap /\ UNCHANGED <<cutoffVars, paramVars, redistVars, chargeVars, calcVars, raised>>

SpecWrap == InitW /\ [][NextW]_vars

InitC ==
    /\ InitIdleWrap /\ InitCutoff /\ InitIdleRedistribute /\ InitIdleCharges
    /\ InitModuleParameters /\ InitCalculator

NextC ==
    Cutoff /\ UNCHANGED <<wrapVars, paramVars, redistVars, chargeVars, calcVars, raised>>

SpecCutoff == InitC /\ [][NextC]_vars

InitR ==
    /\ InitIdleWrap /\ InitIdleCutoff /\ InitRedistribute /\ InitIdleCharges
    /\ InitParameters
    /\ nm = None
    /\ \E o \in Orderings : n = Some(o[1]) /\ me = Some(o[2])
    /\ forces = None /\ results = NoResults /\ pcpot = None
    /\ raised = Returned
    /\ f_raw = None /\ supplied = 0 /\ consumed = 0

NextR ==
    /\ Redistribute
    /\ UNCHANGED <<wrapVars, cutoffVars, paramVars, chargeVars, raised,
                   nm, forces, results, pcpot, f_raw, supplied, consumed>>

SpecRedistribute == InitR /\ [][NextR]_vars

InitQ ==
    /\ InitIdleWrap /\ InitIdleCutoff /\ InitIdleRedistribute /\ InitCharges
    /\ InitModuleParameters /\ InitIdleCalculator

NextQ ==
    \/ /\ SetAcnCharges
       /\ UNCHANGED <<wrapVars, cutoffVars, paramVars, redistVars, calcVars>>
    \/ /\ SetAcnChargesIndexError
       /\ UNCHANGED <<wrapVars, cutoffVars, paramVars, redistVars, calcVars>>

SpecCharges == InitQ /\ [][NextQ]_vars


(***************************************************************************)
(* Properties.                                                             *)
(***************************************************************************)
Abs(x) == IF x < 0 THEN -x ELSE x

RECURSIVE SumBelow(_, _)
SumBelow(f, len) == IF len = 0 THEN 0 ELSE f[len - 1] + SumBelow(f, len - 1)
\* the sum of the entries of an array
SumArray(f) == SumBelow(f, Size(f))

NegArray(a) == [i \in DOMAIN a |-> [ax \in DOMAIN a[i] |-> -a[i][ax]]]

\* the repeating triplet pattern in the ordering the first atom selects
TripletPattern(z) ==
    \A i \in DOMAIN z :
        /\ i % 3 = 1 => z[i] = 6
        /\ i % 3 = NitrogenOffset(z) => z[i] = 7
        /\ i % 3 = MethylOffset(z) => z[i] = 6

\* C1: calculate rejects every snapshot (of whole triplets) that violates
\* the repeating triplet pattern: a non-carbon at offset 1, or a terminal
\* atom that is not nitrogen / methyl carbon in the ordering the first atom
\* selects, ends the evaluation in an AssertionError and writes no results.
C1_PatternViolationRejected ==
    [][\A a \in Snapshots :
          (Calculate(a) /\ Size(a.numbers) % 3 = 0 /\ ~TripletPattern(a.numbers))
          => (raised' = "AssertionError" /\ results' = results)]_vars

\* the last call of calculate completed and ran without a point-charge
\* field, so that nm, n, me, f_raw and results all stem from that call
IsolatedResult ==
    /\ raised = Returned
    /\ results.energy # None
    /\ The(results.energy).pc = None

\* the weights of the terminal sites in the momentum balance of the rigid
\* molecule, times rMeN * mMe * mN:
\*   1 + mC * CMe / mMe  and  1 + mC * CN / mN
WeightMe == mN * (rMeN * mMe + mC * rCN)
WeightN == mMe * (rMeN * mN + mC * rMeC)

\* the mass-weighted sum of the redistributed forces of an array
WeightedSum(n_, me_, f) ==
    SumArray([i \in DOMAIN f |->
                IF i % 3 = n_ THEN WeightN * f[i]
                ELSE IF i % 3 = me_ THEN WeightMe * f[i]
                ELSE 0])

\* C2, as claimed: for an isolated system the forces sum to zero over all
\* atoms, both the raw forces of the double loop and the forces returned
\* after redistribute_forces.
C2_TotalForceZero ==
    IsolatedResult =>
        \A t \in DOMAIN The(f_raw) :
            /\ SumArray(The(f_raw)[t]) = 0
            /\ SumArray(The(results.forces)[t]) = 0

\* C2, amended: for an isolated system the raw forces of the double loop
\* sum to zero over all atoms, and the forces returned after
\* redistribute_forces sum to zero when each terminal site is weighted
\* with (1 + mC*CMe/mMe) for Me and (1 + mC*CN/mN) for N.
C2_RawForceZeroWeightedAfter ==
    IsolatedResult =>
        \A t \in DOMAIN The(f_raw) :
            /\ SumArray(The(f_raw)[t]) = 0
            /\ WeightedSum(The(n), The(me), The(results.forces)[t]) = 0

\* C2's case: two molecules were evaluated without a field, and the plain
\* sum of the returned forces has a contribution that does not cancel
C2_Witness ==
    /\ IsolatedResult
    /\ nm = Some(2)
    /\ \E t \in DOMAIN The(f_raw) :
        /\ \E i \in DOMAIN The(f_raw)[t] : The(f_raw)[t][i] # 0
        /\ SumArray(The(results.forces)[t]) # 0

\* the molecules of a force array: the index of each one's first atom
Molecules(f) == {k \in DOMAIN f : k % 3 = 0}

\* C3, as claimed: redistribute_forces preserves the net force of each
\* molecule: the three output forces (the carbon's being zero) sum to
\* F_N + F_C + F_Me.
C3_NetForcePreserved ==
    f_new # None =>
        \A k \in Molecules(f_old) :
            /\ The(f_new)[k + 1] = 0
            /\ The(f_new)[k] + The(f_new)[k + 1] + The(f_new)[k + 2]
                 = Den_ * (f_old[k] + f_old[k + 1] + f_old[k + 2])

\* C3, amended: for every molecule and arbitrary input forces the carbon
\* output is zero and the outputs of the terminal sites satisfy
\*   (1 + mC*CMe/mMe) F'_Me + (1 + mC*CN/mN) F'_N = F_N + F_C + F_Me.
C3_WeightedNetForcePreserved ==
    f_new # None =>
        \A k \in Molecules(f_old) :
            /\ The(f_new)[k + 1] = 0
            /\ WeightMe * The(f_new)[k + The(me)] + WeightN * The(f_new)[k + The(n)]
                 = Den_ * rMeN * mMe * mN * (f_old[k] + f_old[k + 1] + f_old[k + 2])

\* C3's case: forces with a carbon share were redistributed, and the plain
\* sum of a molecule changed
C3_Witness ==
    /\ f_new # None
    /\ \E k \in Molecules(f_old) :
        /\ f_old[k + 1] # 0
        /\ f_old[k] # 0
        /\ The(f_new)[k] + The(f_new)[k + 2]
             # Den_ * (f_old[k] + f_old[k + 1] + f_old[k + 2])

\* C4: with a field attached, the position buffer never holds positions a
\* completed evaluation has consumed: an evaluation that consumes
\* positions consumes newer ones than any before it and leaves the buffer
\* None (every completed evaluation with a field consumes positions), and
\* while the buffer is None no call changes the results.
C4_StalePositionsNeverReused ==
    /\ [](pcpot # None /\ The(pcpot).mmpositions # None
            => The(The(pcpot).mmpositions) > consumed)
    /\ [][consumed' # consumed
            => (consumed' > consumed /\ The(pcpot').mmpositions = None)]_vars
    /\ [][FieldMissing => results' = results]_vars

\* C4's case: after an evaluation consumed the positions, another one ran
\* without set_positions in between and ended in the TypeError
C4_Witness ==
    /\ consumed > 0
    /\ pcpot # None /\ The(pcpot).mmpositions = None
    /\ raised = "TypeError"
    /\ results.energy # None /\ The(results.energy).pc = Some(consumed)

\* C5: cutoff returns weight 0 and derivative 0 for d >= rc, weight 1 and
\* derivative 0 for d <= rc - width, and in between, with
\* y = (d - rc + width) / width, weight 1 - y^2 (3 - 2y) and derivative
\* -(6 / width) y (1 - y); the weight lies in [0, 1].  (Numerators over
\* width^3.)
C5_CutoffPiecewise ==
    cut # None =>
        /\ DOMAIN The(cut) = DOMAIN d /\ DOMAIN The(dtdd) = DOMAIN d
        /\ \A i \in DOMAIN d :
            LET w == width
                one == w * w * w
                yn == d[i] - rc + w
            IN  /\ d[i] >= rc => The(cut)[i] = 0 /\ The(dtdd)[i] = 0
                /\ d[i] <= rc - w => The(cut)[i] = one /\ The(dtdd)[i] = 0
                /\ (rc - w < d[i] /\ d[i] < rc) =>
                      /\ The(cut)[i] = one - yn * yn * (3 * w - 2 * yn)
                      /\ The(dtdd)[i] = -(6 * yn * (w - yn))
                /\ 0 <= The(cut)[i] /\ The(cut)[i] <= one

\* C5's case: a distance strictly inside the switching shell, with a weight
\* strictly between 0 and 1
C5_Witness ==
    /\ cut # None
    /\ \E i \in DOMAIN d :
        /\ rc - width < d[i] /\ d[i] < rc
        /\ 0 < The(cut)[i] /\ The(cut)[i] < width * width * width
        /\ The(dtdd)[i] < 0

\* d is an odd multiple of L / 2
OddHalfMultiple(x, L) == (2 * x) % (2 * L) = L

\* C6, as claimed: on every periodic axis the correction wrap returns for
\* -d is the exact negative of the one it returns for d, odd multiples of
\* L / 2 included.
C6_WrapAntisymmetric ==
    shift # None =>
        \A i \in DOMAIN D : \A ax \in Axes :
            pbc[ax] => wrap(NegArray(D), cell, pbc)[i][ax] = -The(shift)[i][ax]

\* C6, amended: on every periodic axis the correction for -d is the exact
\* negative of the one for d when d is not an odd multiple of L / 2; when
\* it is, d and -d both wrap to -L / 2, and the corrections add up to -L.
C6_WrapAntisymmetricOffHalf ==
    shift # None =>
        \A i \in DOMAIN D : \A ax \in Axes :
            pbc[ax] =>
                LET back == wrap(NegArray(D), cell, pbc)[i][ax]
                    here == The(shift)[i][ax]
                IN  IF OddHalfMultiple(D[i][ax], cell[ax])
                    THEN /\ 2 * (D[i][ax] + here) = -cell[ax]
                         /\ 2 * (back - D[i][ax]) = -cell[ax]
                         /\ back + here = -cell[ax]
                    ELSE back = -here

\* C6's case: a displacement beyond half the cell on a periodic axis was
\* wrapped, and one that is an odd multiple of L / 2 was
C6_Witness ==
    /\ shift # None
    /\ \E i \in DOMAIN D : \E ax \in Axes :
        /\ pbc[ax] /\ The(shift)[i][ax] # 0
        /\ ~OddHalfMultiple(D[i][ax], cell[ax])
    /\ \E i \in DOMAIN D : \E ax \in Axes :
        pbc[ax] /\ OddHalfMultiple(D[i][ax], cell[ax])

\* C7: wrap returns one correction per displacement; on a periodic axis
\* |D + correction| <= L / 2 and the correction is a multiple of L, on a
\* non-periodic axis it is 0; wrap does not modify D.
C7_WrapMinimumImage ==
    /\ [](shift # None =>
            /\ DOMAIN The(shift) = DOMAIN D
            /\ \A i \in DOMAIN D : \A ax \in Axes :
                IF pbc[ax]
                THEN /\ 2 * Abs(D[i][ax] + The(shift)[i][ax]) <= cell[ax]
                     /\ The(shift)[i][ax] % cell[ax] = 0
                ELSE The(shift)[i][ax] = 0)
    /\ [][D' = D]_vars

\* C7's case: one displacement had a component beyond half the cell on a
\* periodic axis, which was corrected, and one on a non-periodic axis,
\* which was not
C7_Witness ==
    /\ shift # None
    /\ \E i \in DOMAIN D : \E ax, bx \in Axes :
        /\ pbc[ax] /\ 2 * Abs(D[i][ax]) > cell[ax] /\ The(shift)[i][ax] # 0
        /\ ~pbc[bx] /\ 2 * Abs(D[i][bx]) > cell[bx] /\ The(shift)[i][bx] = 0

\* the repeating pattern set_acn_charges is to validate from qmidx onward
ChargePattern(numbers, qmidx_) ==
    /\ \A i \in Slice(ChargeN(numbers, qmidx_), numbers) : numbers[i] = 7
    /\ \A i \in Slice(qmidx_ + 1, numbers) : numbers[i] = 6

\* C8: set_acn_charges assigns charges only when the atoms from qmidx
\* onward follow the repeating triplet pattern; otherwise it ends in an
\* AssertionError and assigns none.
C8_ChargesOnlyOnPattern ==
    qmidx \in DOMAIN arg_atoms.numbers =>
        /\ arg_atoms.initial_charges # Zeros(arg_atoms.numbers)
             => ChargePattern(arg_atoms.numbers, qmidx)
        /\ raised = "AssertionError" => ~ChargePattern(arg_atoms.numbers, qmidx)

\* a snapshot that violates a precondition of the evaluation
ViolatesPrecondition(a) ==
    \/ ~a.orthorhombic
    \/ Size(a.numbers) % 3 # 0
    \/ ~TripletPattern(a.numbers)

\* C9: an evaluation of a snapshot that violates a precondition (cell not
\* orthorhombic, atom count not divisible by 3, triplet species mismatch)
\* leaves self.forces and self.results as they were before the call.
C9_AbortBeforeAnyWrite ==
    [][\A a \in Snapshots :
          (Calculate(a) /\ ViolatesPrecondition(a))
          => (forces' = forces /\ results' = results /\ raised' # Returned)]_vars

\* the species at an intramolecular offset, in the ordering of the last
\* evaluation (self.n, self.me), as its index in sigma and epsilon:
\* 0 methyl, 1 carbon, 2 nitrogen
SpeciesAt(i) == IF i % 3 = The(n) THEN 2 ELSE IF i % 3 = The(me) THEN 0 ELSE 1

\* C10: in both orderings the Lennard-Jones sigma and epsilon applied to a
\* site pair are the combined parameters of the two sites' species.
C10_LJParametersFollowSpecies ==
    (raised = Returned /\ results.energy # None) =>
        \A e \in The(results.energy).pairs :
            e.kind = "lj" =>
                /\ e.sigma_c = sigma[SpeciesAt(e.a)] + sigma[SpeciesAt(e.b)]
                /\ e.epsilon_c = epsilon[SpeciesAt(e.a)] * epsilon[SpeciesAt(e.b)]

====
